---- MODULE Spec2Model ----
(***************************************************************************)
(* ODrive I2C client library (ArduinoI2C/odrive.h).                        *)
(*                                                                         *)
(* Two layers are modelled:                                                *)
(*   - the little-endian codec read_le<T> / write_le<T>, as bit-vector     *)
(*     arithmetic of the C++ integer types (width kept, promotion to int,  *)
(*     shifts, |, &), with the floating-point overloads going through      *)
(*     unsigned_int_of_size<bit_width<T>>;                                 *)
(*   - read_property / write_property, which frame a request, call the     *)
(*     external I2C_transaction and hand its outcome back.                 *)
(*                                                                         *)
(* Platform modelled: the non-AVR branch of the header (<type_traits>),    *)
(* 8-bit bytes, 32-bit int, 32-bit float, 64-bit double.                   *)
(***************************************************************************)
EXTENDS Integers, Sequences, FiniteSets, TLC

VARIABLES
    \* ---- codec harness: one instantiation of write_le<T> / read_le<T>
    cpc,          \* "start" | "ready" | "ill_formed" | "written" | "lost" | "read"
    cT,           \* the type T the templates are instantiated with
    cvalue,       \* the value handed to write_le<T>
    cbuffer,      \* uint8_t buffer[byte_width<T>], and one byte after it
    cresult,      \* what read_le<T>(buffer) returned
    \* ---- protocol layer: calls of read_property / write_property
    json_crc,     \* the catalog's 16-bit checksum constant (odrive_endpoints.h)
    pc,           \* "idle" | "in_i2c" | "returned" | "lost"
    op,           \* "none" | "read" | "write"
    IPropertyId,  \* template argument of the current call
    T,            \* endpoint_type_t<IPropertyId>
    num,          \* uint8_t num
    value,        \* write: the value argument; read: NoValue
    value_ptr,    \* read: "null" or "out" (the pointer argument)
    out,          \* the caller's variable behind a non-null pointer
    out_before,   \* its content when the call was entered
    i2c_calls,    \* invocations of I2C_transaction made by the current call
    ok,           \* what the last invocation returned
    i2c_rx_buffer,\* the receive buffer after the last invocation
    ret,          \* the call's return value ("none" until it returns)
    prev          \* arguments and request frame of the previous call

codec_vars == <<cpc, cT, cvalue, cbuffer, cresult>>
proto_vars == <<json_crc, pc, op, IPropertyId, T, num, value, value_ptr, out,
                out_before, i2c_calls, ok, i2c_rx_buffer, ret, prev>>
vars == <<cpc, cT, cvalue, cbuffer, cresult, json_crc, pc, op, IPropertyId, T,
          num, value, value_ptr, out, out_before, i2c_calls, ok, i2c_rx_buffer,
          ret, prev>>

(***************************************************************************)
(* Bounds of the model.                                                    *)
(***************************************************************************)
\* how many of the sample values of each type the protocol layer draws from
NumSamples == 3
\* how many of the response patterns the transaction primitive may deliver
NumRxPatterns == 2

(***************************************************************************)
(* Platform constants.                                                     *)
(***************************************************************************)
CHAR_BIT == 8
INT_BITS == 32
UINT8_MAX == 255
\* content of a byte of a stack buffer that was never written
Indeterminate == -1

(***************************************************************************)
(* Bit vectors: a sequence of 0/1, least significant bit first.            *)
(***************************************************************************)
Min(a, b) == IF a < b THEN a ELSE b

\* the w-bit vector of a natural n < 2^31
BitsOfNat(n, w) ==
    SubSeq([j \in 1..w |-> IF j <= 31 THEN (n \div (2^(j-1))) % 2 ELSE 0], 1, w)

RECURSIVE NatOfBitsFrom(_, _)
NatOfBitsFrom(b, j) == IF j > Len(b) THEN 0 ELSE b[j] + 2 * NatOfBitsFrom(b, j + 1)

\* the natural a (short) bit vector stands for
NatOfBits(b) == NatOfBitsFrom(b, 1)

BitNot(a) == SubSeq([j \in 1..Len(a) |-> 1 - a[j]], 1, Len(a))
BitOr(a, b) ==
    SubSeq([j \in 1..Len(a) |-> IF a[j] = 1 \/ b[j] = 1 THEN 1 ELSE 0], 1, Len(a))
BitAnd(a, b) ==
    SubSeq([j \in 1..Len(a) |-> IF a[j] = 1 /\ b[j] = 1 THEN 1 ELSE 0], 1, Len(a))

\* a + 1 modulo 2^Len(a)
BitInc(a) ==
    SubSeq([j \in 1..Len(a) |->
               IF \A k \in 1..(j - 1) : a[k] = 1 THEN 1 - a[j] ELSE a[j]], 1, Len(a))

\* two's complement negation
BitNeg(a) == BitInc(BitNot(a))

\* E1 << k in a type of Len(a) bits: bits shifted out are lost
ShiftLeft(a, k) ==
    SubSeq([j \in 1..Len(a) |-> IF j - k >= 1 THEN a[j - k] ELSE 0], 1, Len(a))

\* E1 >> k: arithmetic for a signed type, logical for an unsigned one
ShiftRight(a, k, signed) ==
    SubSeq([j \in 1..Len(a) |->
               IF j + k <= Len(a) THEN a[j + k]
               ELSE IF signed THEN a[Len(a)] ELSE 0], 1, Len(a))

\* conversion to a type of w bits: truncation, or sign/zero extension
Convert(a, w, signed) ==
    SubSeq([j \in 1..w |->
               IF j <= Len(a) THEN a[j]
               ELSE IF signed THEN a[Len(a)] ELSE 0], 1, w)

(***************************************************************************)
(* The scalar types.                                                       *)
(***************************************************************************)
UnsignedTypes == {"uint8_t", "uint16_t", "uint32_t", "uint64_t"}
SignedTypes == {"int8_t", "int16_t", "int32_t", "int64_t"}
FloatingTypes == {"float", "double"}
ScalarTypes == UnsignedTypes \cup SignedTypes \cup FloatingTypes

is_integral(t) == t \in UnsignedTypes \cup SignedTypes
is_floating_point(t) == t \in FloatingTypes
is_signed(t) == t \in SignedTypes

sizeof(t) ==
    CASE t \in {"uint8_t", "int8_t"} -> 1
      [] t \in {"uint16_t", "int16_t"} -> 2
      [] t \in {"uint32_t", "int32_t", "float"} -> 4
      [] t \in {"uint64_t", "int64_t", "double"} -> 8

bit_width(t) == CHAR_BIT * sizeof(t)

byte_width(t) == (bit_width(t) + 7) \div 8

\* template<> struct unsigned_int_of_size<32> { typedef uint32_t type; };
\* the primary template is declared and never defined
unsigned_int_of_size_all_widths == (32 :> "uint32_t") @@ (64 :> "uint64_t")
unsigned_int_of_size == (32 :> "uint32_t")

\* does read_le<t> / write_le<t> instantiate?
well_formed(t) ==
    \/ is_integral(t)
    \/ is_floating_point(t) /\ bit_width(t) \in DOMAIN unsigned_int_of_size

(***************************************************************************)
(* Values.  An integral value is its two's-complement bit vector of        *)
(* bit_width(T) bits; a floating-point value is its IEEE-754 fields.       *)
(***************************************************************************)
NoValue == [t |-> "none"]
IntValue(b) == [t |-> "int", bits |-> b]
FloatValue(s, e, f) == [t |-> "float", sign |-> s, exponent |-> e, fraction |-> f]

exponent_bits(t) == IF t = "float" THEN 8 ELSE 11
fraction_bits(t) == IF t = "float" THEN 23 ELSE 52

\* *reinterpret_cast<T_Int*>(&value): the object representation of a float
float_to_bits(v) == v.fraction \o v.exponent \o <<v.sign>>

\* *reinterpret_cast<T*>(&value): the float whose representation is b
bits_to_float(t, b) ==
    FloatValue(b[Len(b)],
               SubSeq(b, fraction_bits(t) + 1, fraction_bits(t) + exponent_bits(t)),
               SubSeq(b, 1, fraction_bits(t)))

(***************************************************************************)
(* Integer promotion: an operand narrower than int is computed in int.     *)
(***************************************************************************)
promoted_width(t) == IF bit_width(t) < INT_BITS THEN INT_BITS ELSE bit_width(t)
promoted_signed(t) == IF bit_width(t) < INT_BITS THEN TRUE ELSE is_signed(t)
promote(t, b) == Convert(b, promoted_width(t), is_signed(t))

\* i << 3
shl3(i) == i * 8

(***************************************************************************)
(* read_le<T>, integral overload.                                          *)
(***************************************************************************)
\* static_cast<T>(buffer[i]) << (i << 3), in the promoted type
read_le_term(t, byte, i) ==
    ShiftLeft(promote(t, Convert(BitsOfNat(byte, 8), bit_width(t), FALSE)), shl3(i))

\* value |= term
or_assign(t, v, term) ==
    Convert(BitOr(promote(t, v), term), bit_width(t), promoted_signed(t))

RECURSIVE read_le_loop(_, _, _, _, _)
read_le_loop(t, buffer, off, i, v) ==
    IF i < byte_width(t)
    THEN read_le_loop(t, buffer, off, i + 1,
                      or_assign(t, v, read_le_term(t, buffer[off + i + 1], i)))
    ELSE v

read_le_integral(t, buffer, off) ==
    read_le_loop(t, buffer, off, 0, BitsOfNat(0, bit_width(t)))

(***************************************************************************)
(* write_le<T>, integral overload.                                         *)
(***************************************************************************)
\* (value >> (i << 3)) & 0xff, stored into a uint8_t
write_le_byte_msb_first(t, v, i) ==
    NatOfBits(SubSeq(
        BitAnd(ShiftRight(promote(t, v), shl3(byte_width(t) - 1 - i), promoted_signed(t)),
               BitsOfNat(255, promoted_width(t))),
        1, 8))
write_le_byte(t, v, i) ==
    NatOfBits(SubSeq(
        BitAnd(ShiftRight(promote(t, v), shl3(i), promoted_signed(t)),
               BitsOfNat(255, promoted_width(t))),
        1, 8))

RECURSIVE write_le_loop(_, _, _, _, _)
write_le_loop(t, buffer, off, v, i) ==
    IF i < byte_width(t)
    THEN write_le_loop(t, [buffer EXCEPT ![off + i + 1] = write_le_byte(t, v, i)],
                       off, v, i + 1)
    ELSE buffer

write_le_integral(t, buffer, off, v) == write_le_loop(t, buffer, off, v, 0)

(***************************************************************************)
(* read_le<T> / write_le<T>: overload selection.                           *)
(***************************************************************************)
\* T_Int value = read_le<T_Int>(buffer); return *reinterpret_cast<T*>(&value);
read_le_floating(t, buffer, off) ==
    bits_to_float(t, read_le_integral(unsigned_int_of_size[bit_width(t)], buffer, off))

read_le(t, buffer, off) ==
    IF is_integral(t)
    THEN IntValue(read_le_integral(t, buffer, off))
    ELSE read_le_floating(t, buffer, off)

\* write_le<T_Int>(buffer, *reinterpret_cast<T_Int*>(&value));
write_le_floating(t, buffer, off, v) ==
    write_le_integral(unsigned_int_of_size[bit_width(t)], buffer, off, float_to_bits(v))

write_le(t, buffer, off, v) ==
    IF is_integral(t)
    THEN write_le_integral(t, buffer, off, v.bits)
    ELSE write_le_floating(t, buffer, off, v)

\* The floating-point overload of write_le is declared to return T and has no
\* return statement: flowing off its end is undefined behaviour.  Builds
\* either return normally with the buffer written (g++ -O0) or never come
\* back from the call (g++ -O1/-O2/-Os drop the return path).
write_le_returns(t) == IF is_floating_point(t) THEN {TRUE, FALSE} ELSE {TRUE}

\* an uninitialised uint8_t buffer[n]
uninitialized(n) == SubSeq([j \in 1..n |-> Indeterminate], 1, n)

(***************************************************************************)
(* Sample values of each type, built from their numeric value.             *)
(***************************************************************************)
\* the w-bit two's complement of -n
Negative(n, w) == BitNeg(BitsOfNat(n, w))
\* the most negative value of a signed w-bit type (the top bit alone)
TopBit(w) == BitsOfNat(0, w - 1) \o <<1>>

Samples(t) ==
    CASE t = "uint8_t" ->
            <<IntValue(BitsOfNat(165, 8)), IntValue(BitsOfNat(0, 8)),
              IntValue(BitsOfNat(255, 8)), IntValue(BitsOfNat(1, 8))>>
      [] t = "int8_t" ->
            <<IntValue(Negative(2, 8)), IntValue(BitsOfNat(127, 8)),
              IntValue(TopBit(8)), IntValue(BitsOfNat(0, 8))>>
      [] t = "uint16_t" ->
            <<IntValue(BitsOfNat(1000, 16)), IntValue(BitsOfNat(258, 16)),
              IntValue(BitsOfNat(65535, 16)), IntValue(BitsOfNat(0, 16)),
              IntValue(TopBit(16))>>
      [] t = "int16_t" ->
            <<IntValue(Negative(2, 16)), IntValue(BitsOfNat(4660, 16)),
              IntValue(TopBit(16)), IntValue(BitsOfNat(32767, 16)),
              IntValue(BitsOfNat(0, 16))>>
      [] t = "uint32_t" ->
            <<IntValue(BitsOfNat(16909060, 32)), IntValue(Negative(2, 32)),
              IntValue(TopBit(32)), IntValue(BitsOfNat(0, 32)),
              IntValue(BitsOfNat(1000, 32))>>
      [] t = "int32_t" ->
            <<IntValue(Negative(123456, 32)), IntValue(BitsOfNat(16909060, 32)),
              IntValue(TopBit(32)), IntValue(BitsOfNat(2147483647, 32)),
              IntValue(BitsOfNat(0, 32))>>
      [] t = "uint64_t" ->
            <<IntValue(BitsOfNat(84281096, 32) \o BitsOfNat(16909060, 32)),
              IntValue(Negative(2, 64)), IntValue(TopBit(64)),
              IntValue(BitsOfNat(1, 64)), IntValue(BitsOfNat(0, 64))>>
      [] t = "int64_t" ->
            <<IntValue(Negative(2, 64)),
              IntValue(BitsOfNat(84281096, 32) \o BitsOfNat(16909060, 32)),
              IntValue(TopBit(64)), IntValue(BitNot(TopBit(64))),
              IntValue(Negative(123456789, 64))>>
      [] t = "float" ->
            \* 1.5, -0.0, 0.1, +0.0, NaN, the smallest denormal, -infinity
            <<FloatValue(0, BitsOfNat(127, 8), BitsOfNat(4194304, 23)),
              FloatValue(1, BitsOfNat(0, 8), BitsOfNat(0, 23)),
              FloatValue(0, BitsOfNat(123, 8), BitsOfNat(5033165, 23)),
              FloatValue(0, BitsOfNat(0, 8), BitsOfNat(0, 23)),
              FloatValue(0, BitsOfNat(255, 8), BitsOfNat(4194304, 23)),
              FloatValue(0, BitsOfNat(0, 8), BitsOfNat(1, 23)),
              FloatValue(1, BitsOfNat(255, 8), BitsOfNat(0, 23))>>
      [] t = "double" ->
            \* 1.5, -0.0, +0.0, the smallest denormal
            <<FloatValue(0, BitsOfNat(1023, 11), BitsOfNat(0, 51) \o <<1>>),
              FloatValue(1, BitsOfNat(0, 11), BitsOfNat(0, 52)),
              FloatValue(0, BitsOfNat(0, 11), BitsOfNat(0, 52)),
              FloatValue(0, BitsOfNat(0, 11), BitsOfNat(1, 52))>>

\* the values the protocol layer draws from
ValueSet(t) == {Samples(t)[k] : k \in 1..Min(NumSamples, Len(Samples(t)))}

\* the values the codec harness draws from: every sample, and every value of
\* the 8-bit types
CodecValues(t) ==
    {Samples(t)[k] : k \in 1..Len(Samples(t))}
        \cup (IF bit_width(t) = 8 /\ is_integral(t)
              THEN {IntValue(BitsOfNat(n, 8)) : n \in 0..UINT8_MAX}
              ELSE {})

(***************************************************************************)
(* Codec harness: instantiate the templates for a type, encode a value,    *)
(* decode the bytes.                                                       *)
(***************************************************************************)
CodecIdle ==
    /\ cpc = "start"
    /\ cT = "none"
    /\ cvalue = NoValue
    /\ cbuffer = <<>>
    /\ cresult = NoValue

\* read_le<t> and write_le<t> are named for a type t
Instantiate ==
    /\ cpc = "start"
    /\ \E t \in ScalarTypes :
        /\ cT' = t
        /\ cpc' = IF well_formed(t) THEN "ready" ELSE "ill_formed"
    /\ UNCHANGED <<cvalue, cbuffer, cresult>>
    /\ UNCHANGED proto_vars

\* write_le<T>(buffer, value) on a fresh buffer; the buffer is one byte longer
\* than byte_width<T>, so that a write past the end would show
WriteLe ==
    /\ cpc = "ready"
    /\ \E v \in CodecValues(cT) :
       \E returns \in write_le_returns(cT) :
        /\ cvalue' = v
        /\ cbuffer' = write_le(cT, uninitialized(byte_width(cT) + 1), 0, v)
        /\ cpc' = IF returns THEN "written" ELSE "lost"
    /\ UNCHANGED <<cT, cresult>>
    /\ UNCHANGED proto_vars

\* read_le<T>(buffer) on the bytes write_le<T> produced
ReadLe ==
    /\ cpc = "written"
    /\ cresult' = read_le(cT, cbuffer, 0)
    /\ cpc' = "read"
    /\ UNCHANGED <<cT, cvalue, cbuffer>>
    /\ UNCHANGED proto_vars

(***************************************************************************)
(* Protocol layer.                                                         *)
(***************************************************************************)
\* static constexpr const uint8_t i2c_addr = (0xD << 3);
i2c_addr == 104

\* the generated catalog: property id -> value type
Endpoints ==
    { [id |-> 1, type |-> "float"],
      [id |-> 3, type |-> "uint8_t"],
      [id |-> 4, type |-> "int8_t"],
      [id |-> 5, type |-> "uint16_t"],
      [id |-> 6, type |-> "int16_t"],
      [id |-> 258, type |-> "uint32_t"],
      [id |-> 4660, type |-> "int32_t"],
      [id |-> 8, type |-> "uint64_t"],
      [id |-> 9, type |-> "int64_t"],
      [id |-> 10, type |-> "double"] }

\* a catalog of two properties, for the runs over every value of num
FewEndpoints == {e \in Endpoints : e.id \in {1, 5}}

\* the checksum constants the catalog may carry
CrcSamples == {39744, 258}

\* the device indices the address-select pins can encode
DeviceIndexes == 0..7
\* every value of the uint8_t parameter num
AnyNum == 0..UINT8_MAX

\* i2c_addr + num, converted to the uint8_t parameter slave_addr
slave_address_masked(n) == i2c_addr + (n % 8)
slave_address_shifted(n) == (2 * i2c_addr + n) % (UINT8_MAX + 1)
slave_address(n) == (i2c_addr + n) % (UINT8_MAX + 1)

\* "7-bit slave address (the MSB is ignored)": what goes onto the bus
bus_address(addr) == addr % 128

\* the int template argument converted to uint16_t
as_uint16(n) == IntValue(Convert(BitsOfNat(n, INT_BITS), 16, TRUE))

\* read_property: the request frame
read_request(id, crc) ==
    write_le("uint16_t",
             write_le("uint16_t", uninitialized(4), 0, as_uint16(id)),
             4 - 2, as_uint16(crc))

\* read_property: sizeof(i2c_rx_buffer)
read_rx_length_with_crc(t) == byte_width(t) + 2
read_rx_length(t) == byte_width(t)

\* write_property: the request frame
write_request_crc_at_2(id, t, v, crc) ==
    write_le("uint16_t",
             write_le(t,
                      write_le("uint16_t", uninitialized(4 + byte_width(t)), 0,
                               as_uint16(id)),
                      2, v),
             2, as_uint16(crc))
write_request(id, t, v, crc) ==
    write_le("uint16_t",
             write_le(t,
                      write_le("uint16_t", uninitialized(4 + byte_width(t)), 0,
                               as_uint16(id)),
                      2, v),
             (4 + byte_width(t)) - 2, as_uint16(crc))

\* read_property after I2C_transaction returned success with rx in the buffer:
\* the return value and the caller's variable
read_property_decode_first(success, ptr, old, t, rx) ==
    [ret |-> success,
     out |-> IF ptr # "null" THEN read_le(t, rx, 0) ELSE old]
read_property_result(success, ptr, old, t, rx) ==
    IF ~success
    THEN [ret |-> FALSE, out |-> old]
    ELSE [ret |-> TRUE,
          out |-> IF ptr # "null" THEN read_le(t, rx, 0) ELSE old]

\* write_property: return I2C_transaction(...)
write_property_result_always_true(success) == TRUE
write_property_result(success) == success

\* the bytes a transaction may leave in a receive buffer of n bytes
RxPattern(k, n) ==
    SubSeq([j \in 1..n |->
               CASE k = 1 -> 128 + (j - 1)
                 [] k = 2 -> j
                 [] OTHER -> (41 * k + 7 * (j - 1)) % 256], 1, n)

\* I2C_transaction: on success rx_length bytes were read; on failure the
\* buffer holds whatever was read before the transfer broke off
I2C_rx(success, n) ==
    IF success
    THEN {RxPattern(k, n) : k \in 1..NumRxPatterns}
    ELSE {uninitialized(n),
          SubSeq([j \in 1..n |-> IF j = 1 THEN 255 ELSE Indeterminate], 1, n)}

NoCall == [op |-> "none"]

ProtoInit ==
    /\ json_crc \in CrcSamples
    /\ pc = "idle"
    /\ op = "none"
    /\ IPropertyId = 0
    /\ T = "none"
    /\ num = 0
    /\ value = NoValue
    /\ value_ptr = "null"
    /\ out = NoValue
    /\ out_before = NoValue
    /\ i2c_calls = <<>>
    /\ ok = FALSE
    /\ i2c_rx_buffer = <<>>
    /\ ret = "none"
    /\ prev = NoCall

\* read_property<IPropertyId>(num, value), up to the call of I2C_transaction
ReadPropertyEnter(endpoints, nums) ==
    /\ pc = "idle"
    /\ \E e \in endpoints, n \in nums, ptr \in {"null", "out"} :
        /\ well_formed(e.type)
        /\ \E old \in (IF ptr = "out" THEN ValueSet(e.type) ELSE {NoValue}) :
            /\ out' = old
            /\ out_before' = old
        /\ op' = "read"
        /\ IPropertyId' = e.id
        /\ T' = e.type
        /\ num' = n
        /\ value' = NoValue
        /\ value_ptr' = ptr
        /\ i2c_calls' = <<[slave_addr |-> slave_address(n),
                           tx_buffer |-> read_request(e.id, json_crc),
                           tx_length |-> 4,
                           rx_buffer |-> "i2c_rx_buffer",
                           rx_length |-> read_rx_length(e.type)]>>
    /\ pc' = "in_i2c"
    /\ ret' = "none"
    /\ i2c_rx_buffer' = <<>>
    /\ UNCHANGED <<json_crc, ok, prev>>
    /\ UNCHANGED codec_vars

\* I2C_transaction returns to read_property, which returns to its caller
ReadPropertyReturn ==
    /\ pc = "in_i2c"
    /\ op = "read"
    /\ \E success \in BOOLEAN :
       \E rx \in I2C_rx(success, i2c_calls[1].rx_length) :
        /\ ok' = success
        /\ i2c_rx_buffer' = rx
        /\ ret' = read_property_result(success, value_ptr, out, T, rx).ret
        /\ out' = read_property_result(success, value_ptr, out, T, rx).out
    /\ pc' = "returned"
    /\ UNCHANGED <<json_crc, op, IPropertyId, T, num, value, value_ptr,
                   out_before, i2c_calls, prev>>
    /\ UNCHANGED codec_vars

\* write_property<IPropertyId>(num, value), up to the call of I2C_transaction
WritePropertyEnter(endpoints, nums) ==
    /\ pc = "idle"
    /\ \E e \in endpoints, n \in nums :
        /\ well_formed(e.type)
        /\ TRUE \in write_le_returns(e.type)
        /\ \E v \in ValueSet(e.type) :
            /\ value' = v
            /\ i2c_calls' = <<[slave_addr |-> slave_address(n),
                               tx_buffer |-> write_request(e.id, e.type, v, json_crc),
                               tx_length |-> 4 + byte_width(e.type),
                               rx_buffer |-> "nullptr",
                               rx_length |-> 0]>>
        /\ op' = "write"
        /\ IPropertyId' = e.id
        /\ T' = e.type
        /\ num' = n
    /\ value_ptr' = "null"
    /\ out' = NoValue
    /\ out_before' = NoValue
    /\ pc' = "in_i2c"
    /\ ret' = "none"
    /\ i2c_rx_buffer' = <<>>
    /\ UNCHANGED <<json_crc, ok, prev>>
    /\ UNCHANGED codec_vars

\* write_property<IPropertyId>(num, value) whose write_le<T>(i2c_tx_buffer + 2,
\* value) does not come back: no transaction is started and nothing is
\* returned to the caller
WritePropertyLost(endpoints, nums) ==
    /\ pc = "idle"
    /\ \E e \in endpoints, n \in nums :
        /\ well_formed(e.type)
        /\ FALSE \in write_le_returns(e.type)
        /\ \E v \in ValueSet(e.type) : value' = v
        /\ op' = "write"
        /\ IPropertyId' = e.id
        /\ T' = e.type
        /\ num' = n
    /\ value_ptr' = "null"
    /\ out' = NoValue
    /\ out_before' = NoValue
    /\ i2c_calls' = <<>>
    /\ pc' = "lost"
    /\ ret' = "none"
    /\ i2c_rx_buffer' = <<>>
    /\ UNCHANGED <<json_crc, ok, prev>>
    /\ UNCHANGED codec_vars

\* I2C_transaction returns to write_property, which returns to its caller
WritePropertyReturn ==
    /\ pc = "in_i2c"
    /\ op = "write"
    /\ \E success \in BOOLEAN :
        /\ ok' = success
        /\ ret' = write_property_result(success)
    /\ pc' = "returned"
    /\ UNCHANGED <<json_crc, op, IPropertyId, T, num, value, value_ptr, out,
                   out_before, i2c_calls, i2c_rx_buffer, prev>>
    /\ UNCHANGED codec_vars

\* the caller goes on: the frames and buffers of the finished call are gone
\* with its stack frame; the history variable prev keeps, for the comparison
\* with the next call, what the finished call was asked and what it sent
NextCall(track) ==
    /\ pc = "returned"
    /\ prev' = IF track
               THEN [op |-> op, id |-> IPropertyId, value |-> value,
                     tx |-> i2c_calls[1].tx_buffer]
               ELSE NoCall
    /\ pc' = "idle"
    /\ op' = "none"
    /\ IPropertyId' = 0
    /\ T' = "none"
    /\ num' = 0
    /\ value' = NoValue
    /\ value_ptr' = "null"
    /\ out' = NoValue
    /\ out_before' = NoValue
    /\ i2c_calls' = <<>>
    /\ ok' = FALSE
    /\ i2c_rx_buffer' = <<>>
    /\ ret' = "none"
    /\ UNCHANGED json_crc
    /\ UNCHANGED codec_vars

(***************************************************************************)
(* Specifications.                                                         *)
(***************************************************************************)
Init == ProtoInit /\ CodecIdle

\* calls on the whole catalog, device indices 0..7
Next ==
    \/ ReadPropertyEnter(Endpoints, DeviceIndexes)
    \/ ReadPropertyReturn
    \/ WritePropertyEnter(Endpoints, DeviceIndexes)
    \/ WritePropertyLost(Endpoints, DeviceIndexes)
    \/ WritePropertyReturn
    \/ NextCall(FALSE)

Spec == Init /\ [][Next]_vars

\* calls with any value of num
NextAnyNum ==
    \/ ReadPropertyEnter(FewEndpoints, AnyNum)
    \/ ReadPropertyReturn
    \/ WritePropertyEnter(FewEndpoints, AnyNum)
    \/ WritePropertyLost(FewEndpoints, AnyNum)
    \/ WritePropertyReturn
    \/ NextCall(FALSE)

SpecAnyNum == Init /\ [][NextAnyNum]_vars

\* sequences of calls, each compared with the call before it
NextHistory ==
    \/ ReadPropertyEnter(FewEndpoints, DeviceIndexes)
    \/ ReadPropertyReturn
    \/ WritePropertyEnter(FewEndpoints, DeviceIndexes)
    \/ WritePropertyLost(FewEndpoints, DeviceIndexes)
    \/ WritePropertyReturn
    \/ NextCall(TRUE)

SpecHistory == Init /\ [][NextHistory]_vars

\* the codec alone
NextCodec ==
    \/ Instantiate
    \/ WriteLe
    \/ ReadLe

SpecCodec == Init /\ [][NextCodec]_vars

(***************************************************************************)
(* Properties.                                                             *)
(***************************************************************************)
\* byte i (from 0) of a bit pattern, least significant byte first
ByteOf(bits, i) == NatOfBits(SubSeq(bits, 8 * i + 1, 8 * i + 8))

\* the bit pattern of a value: two's complement, or the IEEE-754 layout
\* fraction, exponent, sign from the low bit up
PatternOf(v) ==
    IF v.t = "int" THEN v.bits ELSE v.fraction \o v.exponent \o <<v.sign>>

\* I2C_transaction has been called by the current call
Invoked == pc \in {"in_i2c", "returned"}

\* C1: decoding what write_le<T> encoded gives the value back bit for bit,
\* for every type and value: every write_le<T> comes back, and read_le<T> of
\* its bytes is the value written.
RoundTrip ==
    /\ cpc # "lost"
    /\ cpc = "read" => cresult = cvalue

\* C1, as far as the code goes: the round trip of the types whose write_le
\* returns (the integral ones) and of a float whose write_le did return.
RoundTripWhereWriteReturns ==
    cpc = "read" => cresult = cvalue

RoundTripNegative ==
    /\ cpc = "read"
    /\ cT = "int32_t"
    /\ cvalue = IntValue(Negative(123456, 32))
    /\ cresult = cvalue

\* C2: every request frame handed to I2C_transaction is 4 + p bytes, p = 0
\* for a read and byte_width(T) for a write: the property id low byte first,
\* then (writes) the value's bytes low byte first, then json_crc low byte
\* first; writing uint16 1000 to property 5 gives 05 00 E8 03 crc.
FrameShape ==
    Invoked =>
        LET c == i2c_calls[1]
            tx == c.tx_buffer
            p == IF op = "read" THEN 0 ELSE sizeof(T)
        IN  /\ Len(i2c_calls) = 1
            /\ Len(tx) = 4 + p
            /\ c.tx_length = 4 + p
            /\ tx[1] = IPropertyId % 256
            /\ tx[2] = (IPropertyId \div 256) % 256
            /\ \A i \in 0..(p - 1) : tx[3 + i] = ByteOf(PatternOf(value), i)
            /\ tx[p + 3] = json_crc % 256
            /\ tx[p + 4] = json_crc \div 256
            /\ (op = "write" /\ IPropertyId = 5 /\ value = IntValue(BitsOfNat(1000, 16)))
                => tx = <<5, 0, 232, 3, json_crc % 256, json_crc \div 256>>

FrameShapeExample ==
    /\ pc = "in_i2c"
    /\ op = "write"
    /\ IPropertyId = 5
    /\ T = "uint16_t"
    /\ value = IntValue(BitsOfNat(1000, 16))
    /\ json_crc = 39744
    /\ i2c_calls[1].tx_buffer = <<5, 0, 232, 3, 64, 155>>

\* C3: when I2C_transaction reports failure, read_property returns false and
\* the caller's variable is what it was before the call, and write_property
\* returns false.
FailurePropagates ==
    (pc = "returned" /\ ~ok) =>
        /\ ret = FALSE
        /\ out = out_before

FailedReadWithPartialResponse ==
    /\ pc = "returned"
    /\ op = "read"
    /\ ~ok
    /\ value_ptr = "out"
    /\ i2c_rx_buffer[1] = 255
    /\ ret = FALSE
    /\ out = out_before
    /\ out # NoValue

\* C4: read_property asks for exactly byte_width(T) response bytes into its
\* receive buffer, and on success returns true with the caller's variable set
\* to read_le<T> of those bytes, from the first one on.
ReadDecodesResponse ==
    (Invoked /\ op = "read") =>
        /\ i2c_calls[1].rx_length = sizeof(T)
        /\ i2c_calls[1].rx_buffer = "i2c_rx_buffer"
        /\ (pc = "returned" /\ ok) =>
            /\ ret = TRUE
            /\ Len(i2c_rx_buffer) = sizeof(T)
            /\ value_ptr = "out" => out = read_le(T, i2c_rx_buffer, 0)
            /\ value_ptr = "out" =>
                   \A i \in 0..(sizeof(T) - 1) :
                       ByteOf(PatternOf(out), i) = i2c_rx_buffer[i + 1]
            /\ value_ptr = "null" => out = out_before

SuccessfulFloatRead ==
    /\ pc = "returned"
    /\ op = "read"
    /\ ok
    /\ T = "float"
    /\ value_ptr = "out"
    /\ ret = TRUE
    /\ i2c_rx_buffer = <<128, 129, 130, 131>>
    /\ out # out_before

\* C5: write_property calls I2C_transaction without a receive buffer and with
\* receive length 0, and returns what I2C_transaction returned.
WriteReturnsFlag ==
    (Invoked /\ op = "write") =>
        /\ Len(i2c_calls) = 1
        /\ i2c_calls[1].rx_buffer = "nullptr"
        /\ i2c_calls[1].rx_length = 0
        /\ pc = "returned" => ret = ok

FailedWrite ==
    /\ pc = "returned"
    /\ op = "write"
    /\ ~ok
    /\ ret = FALSE

\* C6: for a device index 0..7, read_property and write_property pass
\* 0x68 + index: a 7-bit address in 0x68..0x6F, upper four bits 1101, low
\* three bits the index; index 4 gives 0x6C.
AddressOfDeviceIndex ==
    (Invoked /\ num \in 0..7) =>
        LET a == i2c_calls[1].slave_addr
        IN  /\ a = 104 + num
            /\ a \in 104..111
            /\ a < 128
            /\ a \div 8 = 13
            /\ a % 8 = num
            /\ bus_address(a) = a
            /\ num = 4 => a = 108

AddressOfIndexFour ==
    /\ pc = "in_i2c"
    /\ op = "write"
    /\ num = 4
    /\ i2c_calls[1].slave_addr = 108

\* C7: each call of read_property or write_property makes exactly one call of
\* I2C_transaction, and its request frame is the same as that of an earlier
\* call with the same property, value and checksum.
OneTransactionPerCall ==
    /\ pc \in {"returned", "lost"} => Len(i2c_calls) = 1
    /\ (Invoked /\ prev.op = op /\ prev.id = IPropertyId /\ prev.value = value)
           => prev.tx = i2c_calls[1].tx_buffer

\* C7, as far as the code goes: a call that returns has made exactly one
\* transaction, and equal requests give equal frames.
OneTransactionPerReturnedCall ==
    /\ pc = "returned" => Len(i2c_calls) = 1
    /\ (Invoked /\ prev.op = op /\ prev.id = IPropertyId /\ prev.value = value)
           => prev.tx = i2c_calls[1].tx_buffer

\* C8: write_le<T> of an integral T writes exactly byte_width(T) =
\* ceil(bit_width(T) / 8) bytes, whatever the value, and byte i is bits
\* 8i .. 8i+7 of the value's two's complement; uint32 0x01020304 is written
\* as 04 03 02 01.
LittleEndianBytes ==
    (cpc \in {"written", "read"} /\ is_integral(cT)) =>
        LET n == byte_width(cT)
        IN  /\ 8 * n >= bit_width(cT)
            /\ 8 * (n - 1) < bit_width(cT)
            /\ n = sizeof(cT)
            /\ Len(cbuffer) = n + 1
            /\ \A i \in 0..(n - 1) : cbuffer[i + 1] = ByteOf(cvalue.bits, i)
            /\ cbuffer[n + 1] = Indeterminate
            /\ (cT = "uint32_t" /\ cvalue = IntValue(BitsOfNat(16909060, 32)))
                => SubSeq(cbuffer, 1, 4) = <<4, 3, 2, 1>>

LittleEndianExample ==
    /\ cpc = "written"
    /\ cT = "uint32_t"
    /\ cvalue = IntValue(BitsOfNat(16909060, 32))
    /\ cbuffer = <<4, 3, 2, 1, Indeterminate>>

\* C9 as stated: the codec is defined for both floating-point widths, 32 and
\* 64 bits.
CodecDefinedForBothFloatWidths ==
    cT \in FloatingTypes => cpc # "ill_formed"

\* C9 as amended: the codec is defined for the 32-bit floating-point type
\* only, whose bytes are those of the uint32_t with the same bit pattern; a
\* 64-bit floating-point type has no entry in unsigned_int_of_size and
\* read_le / write_le do not instantiate for it.
CodecDefinedForFloat32Only ==
    (cT \in FloatingTypes /\ cpc # "start") =>
        /\ cpc = "ill_formed" <=> bit_width(cT) # 32
        /\ cpc \in {"written", "read"} =>
               \A i \in 0..3 : cbuffer[i + 1] = ByteOf(PatternOf(cvalue), i)
        /\ cpc = "read" => PatternOf(cresult) = PatternOf(cvalue)

DoubleRejected ==
    /\ cT = "double"
    /\ cpc = "ill_formed"

\* C10 as stated: num is never validated; the transaction carries
\* (0x68 + num) mod 256, and for num >= 8 the device addressed lies outside
\* 0x68..0x6F.
LargeNumLeavesDeviceFamily ==
    Invoked =>
        /\ i2c_calls[1].slave_addr = (104 + num) % 256
        /\ num >= 8 => bus_address(i2c_calls[1].slave_addr) \notin 104..111

\* C10 as amended: num is never validated; the transaction carries
\* slave_addr = (0x68 + num) mod 256, which for num >= 8 is outside
\* 0x68..0x6F and for num >= 152 has wrapped; the 7-bit address on the bus is
\* (0x68 + num) mod 128, outside 0x68..0x6F except for num in 128..135, which
\* address the devices of index num - 128; no error is reported.
NumIsNotValidated ==
    Invoked =>
        LET a == i2c_calls[1].slave_addr
        IN  /\ Len(i2c_calls) = 1
            /\ a = (104 + num) % 256
            /\ num >= 8 => a \notin 104..111
            /\ (a < num) <=> num >= 152
            /\ bus_address(a) = (104 + num) % 128
            /\ bus_address(a) \in 104..111 <=> num \in (0..7) \cup (128..135)
            /\ num \in 128..135 => bus_address(a) = 104 + (num - 128)
            /\ pc = "returned" => ret = ok

AliasedDeviceIndex ==
    /\ pc = "returned"
    /\ num = 128
    /\ i2c_calls[1].slave_addr = 232
    /\ bus_address(i2c_calls[1].slave_addr) = 104
    /\ ret = TRUE

====
